---------------------------- MODULE Spec2Model ----------------------------
(***************************************************************************)
(* A model of src/src/activitypub/index.js: the key store accessors, the   *)
(* HTTP-signature signer and verifier, the cached authenticated GET and    *)
(* the fan-out delivery of ActivityPub.send.                               *)
(*                                                                         *)
(* Strings are sequences of tokens.  A token stands for a run of           *)
(* characters that holds none of the delimiters the code splits on; the    *)
(* delimiters themselves (",", "=", the double quote, " ") are tokens of   *)
(* their own, so split/join/slice are computed the way the code does.      *)
(***************************************************************************)
EXTENDS Integers, Sequences, FiniteSets, TLC

\* ------------------------------------------------------------------ bounds

\* Key pairs that can be generated in one run.
MaxKeys == 3
\* Direct getPublicKey/getPrivateKey calls in one run.
MaxLookups == 2
\* ActivityPub.get calls in one run.
MaxGets == 2
\* Clock ticks in one run.
MaxTicks == 2
\* Length of the targets array handed to ActivityPub.send.
MaxTargets == 2

\* ------------------------------------------------------------- environment

\* Identities used as the uid argument: -1 is what callers pass for "no
\* identity", 0 is the instance actor.
Uids == {-1, 0, 1}
ValidUids == {u \in Uids : u >= 0}

\* nconf.get('url')
BaseUrl == <<"https://", "local.example">>

\* Remote endpoints: scheme, host, path tokens.
InboxShared == <<"https://", "remote.example", "/inbox">>
InboxAlice == <<"https://", "remote.example", "/users", "/alice", "/inbox">>
InboxBob == <<"https://", "remote.example", "/users", "/bob", "/inbox">>
InboxCarol == <<"https://", "other.example", "/inbox">>
Urls == {InboxShared, InboxAlice}

\* Recipients and what the user store holds for each once it is asserted
\* (<<>> is a field that is not set).
Actors == {"alice", "bob", "carol", "dave"}
ActorFields(id) ==
  CASE id = "alice" -> [inbox |-> InboxAlice, sharedInbox |-> InboxShared]
    [] id = "bob" -> [inbox |-> InboxBob, sharedInbox |-> InboxShared]
    [] id = "carol" -> [inbox |-> InboxCarol, sharedInbox |-> <<>>]
    [] OTHER -> [inbox |-> <<>>, sharedInbox |-> <<>>]

\* Activity objects (the payload argument is <<>> when absent, <<obj>> when
\* present).
Follow == [type |-> <<"Follow">>, object |-> <<"alice">>]
Like == [type |-> <<"Like">>, object |-> <<"note1">>]
Payloads == {<<>>, <<Follow>>}

\* Status codes a remote answers with.
Statuses == {200, 202, 404}

\* Line 13: the time to live of a cache entry, in milliseconds.
OneMinute == 1000 * 60
Ttl == 1000 * 60 * 5
\* The clock advances in steps of half a time to live.
TickMs == Ttl \div 2

\* new Date().toUTCString() t milliseconds after the start of the run.
Pad2(n) == IF n < 10 THEN "0" \o ToString(n) ELSE ToString(n)
DateAt(t) ==
  <<"Sun", ",", " ", "01", " ", "Nov", " ", "2026", " ",
    "07:" \o Pad2(t \div 60000) \o ":" \o Pad2((t % 60000) \div 1000), " ", "GMT">>
Dates == {DateAt(0), DateAt(Ttl)}

\* Bodies a remote answers a GET with.
Bodies == {"doc1", "doc2"}

\* JavaScript's null, where it is stored in a string-valued field.
Null == <<"null">>

\* --------------------------------------------------------- string helpers

IsPrefix(p, s) == Len(p) <= Len(s) /\ SubSeq(s, 1, Len(p)) = p

\* Index of the first occurrence of sep in s, 0 when there is none.
IndexOf(s, sep) ==
  LET hits == {i \in 1..Len(s) : IsPrefix(sep, SubSeq(s, i, Len(s)))}
  IN IF hits = {} THEN 0 ELSE CHOOSE i \in hits : \A j \in hits : i <= j

\* String.prototype.split(sep) for a non-empty separator.
RECURSIVE Split(_, _)
Split(s, sep) ==
  LET i == IndexOf(s, sep)
  IN IF i = 0 THEN <<s>>
     ELSE <<SubSeq(s, 1, i - 1)>> \o Split(SubSeq(s, i + Len(sep), Len(s)), sep)

\* Array.prototype.join(sep)
RECURSIVE Join(_, _)
Join(parts, sep) ==
  IF Len(parts) = 0 THEN <<>>
  ELSE IF Len(parts) = 1 THEN parts[1]
  ELSE parts[1] \o sep \o Join(Tail(parts), sep)

\* String.prototype.slice(0, -1)
SliceDropLast(s) == IF Len(s) = 0 THEN s ELSE SubSeq(s, 1, Len(s) - 1)

\* String(statusCode).startsWith('2')
RECURSIVE LeadingDigit(_)
LeadingDigit(n) == IF n < 10 THEN n ELSE LeadingDigit(n \div 10)
Is2xx(status) == LeadingDigit(status) = 2

\* String(req.method).toLowerCase()
KeepCase(m) == m
ToLowerCase(m) ==
  CASE m = "POST" -> "post"
    [] m = "GET" -> "get"
    [] OTHER -> m

\* new URL(url): host and pathname
UrlHost(url) == url[2]
UrlPathname(url) == IF Len(url) > 2 THEN SubSeq(url, 3, Len(url)) ELSE <<"/">>

\* ------------------------------------------------------------ cryptography
\* Symbolic: a key is a half of a numbered pair, a hash or a signature is a
\* term that names what it was computed from, so two of them are equal only
\* when their inputs are.

PrivateKey(k) == [half |-> "private", pair |-> k]
PublicKey(k) == [half |-> "public", pair |-> k]
Undefined == [half |-> "undefined", pair |-> 0]

\* createHash('sha256').update(s).digest('base64')
Sha256Base64(s) == "sha256:" \o s
\* JSON.stringify(payload)
JsonStringify(obj) == ToString(obj)

\* createSign('sha256').update(s).sign(key, 'base64'): an RSA signature is
\* as long as the modulus, a length that base64 pads with "==".
SignBase64(key, s) == <<"rsa:" \o ToString(<<key.pair, s>>), "=", "=">>

\* Buffer.from(sig, 'base64'): the padding carries no data.
RECURSIVE Base64Decode(_)
Base64Decode(sig) ==
  IF Len(sig) > 0 /\ sig[Len(sig)] = "=" THEN Base64Decode(SliceDropLast(sig))
  ELSE sig

\* createVerify('sha256').update(s).verify(pem, sig, 'base64')
VerifyBase64(pem, s, sig) ==
  Base64Decode(sig) = <<"rsa:" \o ToString(<<pem.pair, s>>)>>


\* ------------------------------------------------------------------- state

VARIABLES
  now,         \* the clock, in milliseconds
  dbKeys,      \* db object uid:<uid>:keys: the stored pair's number, 0 when absent
  generated,   \* per identity, the pairs generateKeys has produced so far
  klook,       \* the getPublicKey/getPrivateKey calls in progress, by caller
  requestCache, \* line 13: cache key -> [value, expires]
  gcalls,      \* the ActivityPub.get calls
  sendc,       \* the ActivityPub.send call
  deliv,       \* its deliveries, one per resolved inbox
  asserted,    \* the recipients actors.assert has materialised
  vcall,       \* the ActivityPub.verify call in progress
  vorig,       \* how the inbound request under verification came about
  scall,       \* the direct ActivityPub.sign call
  net          \* every request handed to the HTTP client so far

keyVars == <<dbKeys, generated, klook>>
getVars == <<requestCache, gcalls>>
sendVars == <<sendc, deliv, asserted>>
verifyVars == <<vcall, vorig>>
vars ==
  <<now, dbKeys, generated, klook, requestCache, gcalls, sendc, deliv, asserted,
    vcall, vorig, scall, net>>

\* The Accept / content-type value of lines 68, 170 and 205.
LdJson == <<"application/ld+json; profile=\"https://www.w3.org/ns/activitystreams\"">>

\* ------------------------------------------------------ ActivityPub.sign

\* The uid argument as a caller can pass it: something that is not a number,
\* or a number, held in tenths so that 15 is 1.5 and -5 is -0.5.
NotANumber == [numeric |-> FALSE, tenths |-> 0]
Number(tenths) == [numeric |-> TRUE, tenths |-> tenths]
Whole(n) == Number(10 * n)

\* utils.isNumber(uid)
IsNumber(arg) == arg.numeric

\* parseInt(uid, 10): the digits before the decimal point, so the value is
\* truncated towards zero (and -0.5 gives -0, which is not below 0).
ParseInt(tenths) == IF tenths >= 0 THEN tenths \div 10 ELSE -((-tenths) \div 10)

\* Line 81: the sanity check of sign.
InvalidUid(arg) == ~IsNumber(arg) \/ ParseInt(arg.tenths) < 0

\* Line 81 for the integer uids get and send pass on.
SignValid(uid) == ~InvalidUid(Whole(uid))

\* Line 90.
KeyId(uid) ==
  BaseUrl \o (IF uid > 0 THEN <<"/uid/", ToString(uid)>> ELSE <<"/actor">>) \o <<"#key">>

\* Lines 97-100: digest is null without a payload.
Digest(payload) ==
  IF payload # <<>>
  THEN <<"sha-256", "=", Sha256Base64(JsonStringify(payload[1])), "=">>
  ELSE Null

\* Lines 93 and 101: the signed headers list.
SignedHeaders(payload) ==
  <<"(request-target)", " ", "host", " ", "date">>
    \o (IF payload # <<>> THEN <<" ", "digest">> ELSE <<>>)

\* Lines 94 and 102: the string that is signed.
SignedString(url, payload, date) ==
  <<"(request-target)", ": ", (IF payload # <<>> THEN "post" ELSE "get"), " ">>
    \o UrlPathname(url)
    \o <<"\n", "host", ": ", UrlHost(url), "\n", "date", ": ">> \o date
    \o (IF payload # <<>> THEN <<"\n", "digest", ": ">> \o Digest(payload) ELSE <<>>)

\* Line 115: the value of the signature header.
SignatureHeader(keyId, headers, signature) ==
  <<"keyId", "=", "\"">> \o keyId \o <<"\"", ",", "headers", "=", "\"">> \o headers
    \o <<"\"", ",", "signature", "=", "\"">> \o signature \o <<"\"">>

\* Lines 87-116, once getPrivateKey has returned key.
Sign(uid, url, payload, key, date) ==
  [date |-> date,
   digest |-> Digest(payload),
   signature |-> SignatureHeader(KeyId(uid), SignedHeaders(payload),
                                 SignBase64(key, SignedString(url, payload, date)))]

\* ---------------------------------------------------- ActivityPub.verify

EqQuote == <<"=", "\"">>

\* Lines 126-129: one key="value" pair of the header.
PairKey(cur) == Split(cur, EqQuote)[1]
PairValue(cur) == SliceDropLast(Join(Tail(Split(cur, EqQuote)), EqQuote))

\* Lines 125-131: the reduce over the comma-separated pairs; a later pair
\* with the same key replaces an earlier one.
ParseSignature(header) ==
  LET pairs == Split(header, <<",">>)
      last(k) == CHOOSE i \in 1..Len(pairs) :
                   /\ PairKey(pairs[i]) = k
                   /\ \A j \in 1..Len(pairs) : PairKey(pairs[j]) = k => j <= i
  IN [k \in {PairKey(pairs[i]) : i \in 1..Len(pairs)} |-> PairValue(pairs[last(k)])]

\* req.headers.hasOwnProperty(cur)
HasHeader(req, cur) == Len(cur) = 1 /\ cur[1] \in DOMAIN req.headers

\* Lines 135-139: the line one listed name contributes, <<>> when it is skipped.
SignedLine(req, cur) ==
  IF cur = <<"(request-target)">>
  THEN <<cur \o <<": ", ToLowerCase(req.method), " ">> \o req.baseUrl \o req.path>>
  ELSE IF HasHeader(req, cur) THEN <<cur \o <<": ">> \o req.headers[cur[1]]>>
  ELSE <<>>

RECURSIVE SignedLines(_, _)
SignedLines(req, names) ==
  IF Len(names) = 0 THEN <<>>
  ELSE SignedLine(req, names[1]) \o SignedLines(req, Tail(names))

\* Lines 134-142.
ReconstructSignedString(req, headers) ==
  Join(SignedLines(req, Split(headers, <<" ">>)), <<"\n">>)

\* Lines 120-122: without a signature header verify returns false at once.
FetchesAnyway ==
  [kind |-> "fetch", keyId |-> <<>>, signed_string |-> <<>>,
   hasSignature |-> FALSE, signature |-> <<>>]
NoSignatureHeader ==
  [kind |-> "false", keyId |-> <<>>, signed_string |-> <<>>,
   hasSignature |-> FALSE, signature |-> <<>>]

\* Lines 120-147, up to the await of fetchPublicKey.  kind is what verify
\* does next: "false" returns false, "throw" raises to the caller, "fetch"
\* has issued the GET of the key document.
VerifySync(req) ==
  IF "signature" \notin DOMAIN req.headers
  THEN NoSignatureHeader
  ELSE
    LET memo == ParseSignature(req.headers["signature"])
        hasSig == <<"signature">> \in DOMAIN memo
        sig == IF hasSig THEN memo[<<"signature">>] ELSE <<>>
    IN IF <<"headers">> \notin DOMAIN memo
       \* headers is undefined: headers.split raises a TypeError outside the try
       THEN [kind |-> "throw", keyId |-> <<>>, signed_string |-> <<>>,
             hasSignature |-> hasSig, signature |-> sig]
       ELSE
         LET str == ReconstructSignedString(req, memo[<<"headers">>])
         IN IF <<"keyId">> \notin DOMAIN memo
            \* request.get(undefined) rejects inside the try
            THEN [kind |-> "false", keyId |-> <<>>, signed_string |-> str,
                  hasSignature |-> hasSig, signature |-> sig]
            ELSE [kind |-> "fetch", keyId |-> memo[<<"keyId">>], signed_string |-> str,
                  hasSignature |-> hasSig, signature |-> sig]

\* ------------------------------------------ ActivityPub.fetchPublicKey

\* What the remote answers to the GET of a key document: a network error, or
\* a status and a parsed JSON body: null, or a document that may hold
\* publicKey, whose publicKeyPem may be missing.
KeyResponses ==
  {[error |-> TRUE, status |-> 0, isNull |-> FALSE, hasPublicKey |-> FALSE,
    publicKeyPem |-> Undefined]}
  \cup {[error |-> FALSE, status |-> st, isNull |-> n, hasPublicKey |-> FALSE,
         publicKeyPem |-> Undefined] : st \in Statuses, n \in BOOLEAN}
  \cup {[error |-> FALSE, status |-> st, isNull |-> FALSE, hasPublicKey |-> TRUE,
         publicKeyPem |-> pem] :
          st \in Statuses, pem \in {Undefined} \cup {PublicKey(k) : k \in 1..MaxKeys}}

\* Lines 66-76: how fetchPublicKey settles: "ok" when it returns
\* body.publicKey, else the error it rejects with.  The status test comes
\* first and short-circuits; body.hasOwnProperty on null raises a TypeError.
PubKeyNotFound == "[[error:activitypub.pubKey-not-found]]"
FetchPublicKey(resp) ==
  IF resp.error THEN "request failed"
  ELSE IF ~Is2xx(resp.status) THEN PubKeyNotFound
  ELSE IF resp.isNull THEN "TypeError"
  ELSE IF ~resp.hasPublicKey THEN PubKeyNotFound
  ELSE "ok"

\* Lines 72-76: TRUE when fetchPublicKey returns body.publicKey, FALSE when
\* it rejects.
FetchPublicKeyOk(resp) == FetchPublicKey(resp) = "ok"

\* Lines 147-156: the value verify returns once the key document arrived.
VerifyAfterFetch(v, resp) ==
  /\ FetchPublicKeyOk(resp)
  /\ resp.publicKeyPem # Undefined
  /\ v.hasSignature
  /\ VerifyBase64(resp.publicKeyPem, v.signed_string, v.signature)


\* ------------------------------------------------------ inbound requests

\* The request a peer running this code sends for what
\* Sign(uid, url, payload) returned with the private key of pair k; the
\* receiving application is mounted at the first mount tokens of the path.
SignedRequest(uid, url, payload, k, date, mount) ==
  LET h == Sign(uid, url, payload, PrivateKey(k), date)
      p == UrlPathname(url)
      names == {"host", "date", "signature"} \cup (IF payload # <<>> THEN {"digest"} ELSE {})
  IN [method |-> IF payload # <<>> THEN "POST" ELSE "GET",
      baseUrl |-> SubSeq(p, 1, mount),
      path |-> SubSeq(p, mount + 1, Len(p)),
      headers |-> [n \in names |->
                     CASE n = "host" -> <<UrlHost(url)>>
                       [] n = "date" -> h.date
                       [] n = "digest" -> h.digest
                       [] OTHER -> h.signature],
      body |-> payload]

\* The signature header without its i-th pair.
DropPair(header, i) ==
  LET pairs == Split(header, <<",">>)
  IN Join(SubSeq(pairs, 1, i - 1) \o SubSeq(pairs, i + 1, Len(pairs)), <<",">>)

\* What reaches the verifier instead of the request as sent.
Tampers ==
  {"none", "body", "date", "unsigned", "noKeyId", "noHeaders", "noSignature", "noPairs"}

WithHeader(req, name, value) ==
  [req EXCEPT !.headers = [n \in DOMAIN req.headers \cup {name} |->
                             IF n = name THEN value ELSE req.headers[n]]]

Tamper(req, how) ==
  CASE how = "body" ->
         [req EXCEPT !.body = IF req.body = <<Follow>> THEN <<Like>> ELSE <<Follow>>]
    [] how = "date" ->
         WithHeader(req, "date", IF req.headers["date"] = DateAt(0) THEN DateAt(Ttl) ELSE DateAt(0))
    [] how = "unsigned" ->
         [req EXCEPT !.headers = [n \in DOMAIN req.headers \ {"signature"} |-> req.headers[n]]]
    [] how = "noKeyId" -> WithHeader(req, "signature", DropPair(req.headers["signature"], 1))
    [] how = "noHeaders" -> WithHeader(req, "signature", DropPair(req.headers["signature"], 2))
    [] how = "noSignature" -> WithHeader(req, "signature", DropPair(req.headers["signature"], 3))
    [] how = "noPairs" -> WithHeader(req, "signature", <<"garbage">>)
    [] OTHER -> req

\* --------------------------------------------------------- verify: steps

FetchRequest(keyId) ==
  [by |-> <<"fetchPublicKey", 1>>, method |-> "GET", uri |-> keyId,
   headers |-> [h \in {"Accept"} |-> LdJson], body |-> <<>>]

\* An inbound request arrives and the HTTP layer calls ActivityPub.verify:
\* lines 119-147, up to the await of the key document.
VerifyCall ==
  /\ vcall.pc = "idle"
  /\ \E uid \in ValidUids, url \in Urls, payload \in Payloads, k \in 1..MaxKeys,
        date \in Dates, mount \in 0..1, how \in Tampers :
       /\ how = "body" => payload # <<>>
       /\ LET sent == SignedRequest(uid, url, payload, k, date, mount)
              req == Tamper(sent, how)
              v == VerifySync(req)
          IN /\ vorig' = [uid |-> uid, url |-> url, payload |-> payload, pair |-> k,
                          how |-> how, sent |-> sent]
             /\ vcall' = [pc |-> CASE v.kind = "fetch" -> "fetching"
                                   [] v.kind = "throw" -> "threw"
                                   [] OTHER -> "returned",
                          req |-> req, v |-> v, ret |-> FALSE, ferr |-> "",
                          resp |-> CHOOSE r \in KeyResponses : r.error]
             /\ net' = IF v.kind = "fetch"
                       THEN net \cup {FetchRequest(v.keyId)}
                       ELSE net
  /\ UNCHANGED <<scall, now, keyVars, getVars, sendVars>>

\* The key document arrives (or the request fails): lines 147-156.
VerifyFetched ==
  /\ vcall.pc = "fetching"
  /\ \E resp \in KeyResponses :
       vcall' = [vcall EXCEPT !.pc = "returned", !.resp = resp,
                              !.ferr = FetchPublicKey(resp),
                              !.ret = VerifyAfterFetch(vcall.v, resp)]
  /\ UNCHANGED <<scall, now, keyVars, getVars, sendVars, vorig, net>>

\* ------------------------------- ActivityPub.getPublicKey / getPrivateKey

\* Who can be waiting for a key: a direct call, a get call, a delivery of send.
Callers ==
  {<<"api", i>> : i \in 1..MaxLookups} \cup {<<"get", i>> : i \in 1..(MaxGets + 1)}
    \cup {<<"send", i>> : i \in 1..MaxTargets} \cup {<<"sign", 1>>}

IdleLookup == [pc |-> "idle", fn |-> "", uid |-> 0, ret |-> Undefined, dbError |-> FALSE]

\* The half of pair k the accessor fn hands out (lines 49 and 61).
Half(fn, k) == IF fn = "getPublicKey" THEN PublicKey(k) ELSE PrivateKey(k)

\* Lines 44 and 56: the accessor is called and awaits db.getObject.
StartLookup(kl, c, fn, uid) ==
  [kl EXCEPT ![c] = [pc |-> "reading", fn |-> fn, uid |-> uid, ret |-> Undefined,
                     dbError |-> FALSE]]

\* Lines 43-47 and 55-59: the db answers.  With key material stored the
\* accessor returns its half; without, the destructuring fails, the catch
\* runs and generateKeys is awaited.
AfterRead(frame, stored) ==
  IF stored # 0
  THEN [frame EXCEPT !.pc = "returned", !.ret = Half(frame.fn, stored)]
  ELSE [frame EXCEPT !.pc = "generating"]

\* Lines 45-46 and 57-58: db.getObject rejected because the store cannot be
\* reached; the catch does not look at the error and generateKeys is awaited.
AfterReadFailed(frame) == [frame EXCEPT !.pc = "generating", !.dbError = TRUE]

\* Lines 46 and 58: generateKeys returned pair k and the accessor returns
\* its half of it.
AfterGenerate(frame, k) == [frame EXCEPT !.pc = "returned", !.ret = Half(frame.fn, k)]

\* Pairs generated so far, over all identities.
AllGenerated == UNION {generated[u] : u \in ValidUids}

\* A getPublicKey or getPrivateKey call from outside this module.
LookupCall ==
  \E i \in 1..MaxLookups, fn \in {"getPublicKey", "getPrivateKey"}, uid \in ValidUids :
    /\ klook[<<"api", i>>].pc = "idle"
    /\ i > 1 => klook[<<"api", i - 1>>].pc # "idle"
    /\ klook' = StartLookup(klook, <<"api", i>>, fn, uid)
    /\ UNCHANGED <<scall, now, dbKeys, generated, getVars, sendVars, verifyVars, net>>

\* db.getObject settles for caller c.
KeyRead ==
  \E c \in Callers :
    /\ klook[c].pc = "reading"
    /\ klook' = [klook EXCEPT ![c] = AfterRead(klook[c], dbKeys[klook[c].uid])]
    /\ UNCHANGED <<scall, now, dbKeys, generated, getVars, sendVars, verifyVars, net>>

\* helpers.generateKeys(uid) settles for caller c: a fresh pair is made,
\* stored under uid:<uid>:keys and returned.
KeyGenerate ==
  \E c \in Callers :
    /\ klook[c].pc = "generating"
    /\ Cardinality(AllGenerated) < MaxKeys
    /\ LET k == Cardinality(AllGenerated) + 1
           u == klook[c].uid
       IN /\ generated' = [generated EXCEPT ![u] = @ \cup {k}]
          /\ dbKeys' = [dbKeys EXCEPT ![u] = k]
          /\ klook' = [klook EXCEPT ![c] = AfterGenerate(klook[c], k)]
    /\ UNCHANGED <<scall, now, getVars, sendVars, verifyVars, net>>

\* db.getObject rejects for caller c: the store cannot be reached.
KeyReadFails ==
  \E c \in Callers :
    /\ klook[c].pc = "reading"
    /\ klook' = [klook EXCEPT ![c] = AfterReadFailed(klook[c])]
    /\ UNCHANGED <<scall, now, dbKeys, generated, getVars, sendVars, verifyVars, net>>

\* helpers.generateKeys(uid) rejects for caller c while the store is still
\* out of reach: a pair was made, it could not be stored, and the accessor
\* passes the rejection on.
KeyGenerateFails ==
  \E c \in Callers :
    /\ klook[c].pc = "generating"
    /\ klook[c].dbError
    /\ Cardinality(AllGenerated) < MaxKeys
    /\ generated' = [generated EXCEPT ![klook[c].uid] =
                       @ \cup {Cardinality(AllGenerated) + 1}]
    /\ klook' = [klook EXCEPT ![c].pc = "threw"]
    /\ UNCHANGED <<scall, now, dbKeys, getVars, sendVars, verifyVars, net>>

\* ------------------------------------------ ActivityPub.sign, called directly

\* The uid arguments of a direct call: no number, -1, -0.5, 0, 0.5, 1, 1.5.
SignArgs == {NotANumber} \cup {Number(t) : t \in {-10, -5, 0, 5, 10, 15}}

IdleSign == [pc |-> "idle"]

\* Lines 79-89: sign is called; it raises invalid-uid or goes on to await
\* the private key of parseInt(uid, 10).
SignCall ==
  /\ scall.pc = "idle"
  /\ \E arg \in SignArgs, url \in Urls, payload \in Payloads :
       IF InvalidUid(arg)
       THEN /\ scall' = [pc |-> "threw", arg |-> arg, uid |-> 0, url |-> url,
                         payload |-> payload, date |-> <<>>, err |-> "[[error:invalid-uid]]"]
            /\ UNCHANGED klook
       ELSE /\ scall' = [pc |-> "signing", arg |-> arg, uid |-> ParseInt(arg.tenths),
                         url |-> url, payload |-> payload, date |-> DateAt(now), err |-> ""]
            /\ klook' = StartLookup(klook, <<"sign", 1>>, "getPrivateKey",
                                    ParseInt(arg.tenths))
  /\ UNCHANGED <<now, dbKeys, generated, getVars, sendVars, verifyVars, net>>

\* Lines 89-116: the private key arrived and sign returns the headers.
SignReturn ==
  /\ scall.pc = "signing"
  /\ klook[<<"sign", 1>>].pc = "returned"
  /\ scall' = [pc |-> "returned",
               ret |-> Sign(scall.uid, scall.url, scall.payload,
                            klook[<<"sign", 1>>].ret, scall.date),
               arg |-> scall.arg, uid |-> scall.uid]
  /\ UNCHANGED <<now, keyVars, getVars, sendVars, verifyVars, net>>

\* ------------------------------------------------------- ActivityPub.get

\* Line 160: [uid, uri].join(';')
UriOnly(uid, uri) == uri
CacheKey(uid, uri) == <<ToString(uid), ";">> \o uri

\* The characters a token sequence stands for.
RECURSIVE Flatten(_)
Flatten(s) == IF Len(s) = 0 THEN "" ELSE Head(s) \o Flatten(Tail(s))

\* Arguments the cache key is computed from: the identities, and strings
\* handed in as uri that themselves hold digits and the separator.
KeyUids == {-1, 0, 1, 11}
KeyUris ==
  {InboxShared, InboxAlice,
   InboxShared \o <<";", "1">>,
   <<"1", ";">> \o InboxShared,
   <<";">> \o InboxShared,
   <<"1">>, <<"1", ";", "1">>, <<>>}
\* requestCache.has / get / set of the ttl cache.
CacheHas(key) == key \in DOMAIN requestCache /\ now < requestCache[key].expires
CacheGet(key) == requestCache[key].value
CacheSet(key, body) ==
  [k \in DOMAIN requestCache \cup {key} |->
     IF k = key THEN [value |-> body, expires |-> now + Ttl] ELSE requestCache[k]]

\* The get calls of a run are numbered in the order they are made.
GetIds == 1..(MaxGets + 1)
GetsMade == Cardinality({i \in GetIds : gcalls[i].pc # "idle"})

\* The arguments get is called with.
GetUids == {-1, 1}
GetUris == {InboxShared}

IdleGet ==
  [pc |-> "idle", uid |-> 0, uri |-> <<>>, date |-> <<>>, hit |-> FALSE,
   answer |-> "", ret |-> "", err |-> ""]

\* Lines 167-172: the request get hands to the HTTP client; headers is what
\* sign returned, or {} for a negative uid.
GetRequest(i, uri, headers) ==
  [by |-> <<"get", i>>, method |-> "GET", uri |-> uri,
   headers |-> [h \in DOMAIN headers \cup {"Accept"} |->
                  IF h = "Accept" THEN LdJson ELSE headers[h]],
   body |-> <<>>]

\* What the remote answers to a GET: a network error, or a status and a body.
GetResponses ==
  {[error |-> TRUE, status |-> 0, body |-> ""]}
    \cup {[error |-> FALSE, status |-> st, body |-> b] : st \in Statuses, b \in Bodies}

\* The kind of an answer, as the remote sent it.
AnswerKind(resp) ==
  IF resp.error THEN "error" ELSE IF Is2xx(resp.status) THEN "2xx" ELSE "non-2xx"

\* Line 174: the status check of get.
NeverFailed(resp) == FALSE
GetFailed(resp) == ~Is2xx(resp.status)

\* Lines 159-166: get is called and runs up to its first await.
GetCall ==
  \E i \in GetIds, uid \in GetUids, uri \in GetUris :
    /\ gcalls[i].pc = "idle"
    /\ i > 1 => gcalls[i - 1].pc # "idle"
    /\ LET key == CacheKey(uid, uri)
       IN IF CacheHas(key)
          THEN /\ gcalls' = [gcalls EXCEPT ![i] = [IdleGet EXCEPT
                               !.pc = "returned", !.uid = uid, !.uri = uri,
                               !.hit = TRUE, !.ret = CacheGet(key)]]
               /\ UNCHANGED <<klook, net>>
          ELSE IF uid >= 0
          THEN /\ gcalls' = [gcalls EXCEPT ![i] = [IdleGet EXCEPT
                               !.pc = "signing", !.uid = uid, !.uri = uri,
                               !.date = DateAt(now)]]
               /\ klook' = StartLookup(klook, <<"get", i>>, "getPrivateKey", uid)
               /\ UNCHANGED net
          ELSE /\ gcalls' = [gcalls EXCEPT ![i] = [IdleGet EXCEPT
                               !.pc = "requested", !.uid = uid, !.uri = uri]]
               /\ net' = net \cup {GetRequest(i, uri, <<>>)}
               /\ UNCHANGED klook
    /\ UNCHANGED <<scall, now, dbKeys, generated, requestCache, sendVars, verifyVars>>

\* Lines 165-172: sign has the private key, returns the headers, and get
\* issues the request.
GetSigned ==
  \E i \in GetIds :
    /\ gcalls[i].pc = "signing"
    /\ klook[<<"get", i>>].pc = "returned"
    /\ net' = net \cup {GetRequest(i, gcalls[i].uri,
                          Sign(gcalls[i].uid, gcalls[i].uri, <<>>,
                               klook[<<"get", i>>].ret, gcalls[i].date))}
    /\ klook' = [klook EXCEPT ![<<"get", i>>] = IdleLookup]
    /\ gcalls' = [gcalls EXCEPT ![i].pc = "requested"]
    /\ UNCHANGED <<scall, now, dbKeys, generated, requestCache, sendVars, verifyVars>>

\* Lines 174-184: the answer arrives.
GetResponse ==
  \E i \in GetIds, resp \in GetResponses :
    /\ gcalls[i].pc = "requested"
    /\ IF resp.error
       THEN /\ gcalls' = [gcalls EXCEPT ![i].pc = "threw", ![i].answer = AnswerKind(resp),
                                        ![i].err = "request failed"]
            /\ UNCHANGED requestCache
       ELSE IF GetFailed(resp)
       THEN /\ gcalls' = [gcalls EXCEPT ![i].pc = "threw", ![i].answer = AnswerKind(resp),
                                        ![i].err = "[[error:activitypub.get-failed]]"]
            /\ UNCHANGED requestCache
       ELSE /\ requestCache' = CacheSet(CacheKey(gcalls[i].uid, gcalls[i].uri), resp.body)
            /\ gcalls' = [gcalls EXCEPT ![i].pc = "returned", ![i].answer = AnswerKind(resp),
                                        ![i].ret = resp.body]
    /\ UNCHANGED <<scall, now, keyVars, sendVars, verifyVars, net>>

\* Time passes.
Tick ==
  /\ now < MaxTicks * TickMs
  /\ now' = now + TickMs
  /\ UNCHANGED <<scall, keyVars, getVars, sendVars, verifyVars, net>>

\* ---------------------------------------------- ActivityPub.resolveInboxes

\* Line 33: sharedInbox || inbox
PreferInbox(a, b) == IF b # <<>> THEN b ELSE a
Either(a, b) == IF a # <<>> THEN a ELSE b

\* Lines 27 and 33: inboxes is a Set, kept here in insertion order.
ArrayPush(inboxes, x) == Append(inboxes, x)
SetAdd(inboxes, x) ==
  IF \E i \in 1..Len(inboxes) : inboxes[i] = x THEN inboxes ELSE Append(inboxes, x)

\* Lines 31-34: what the lookup of one identifier adds to inboxes.
AddInbox(inboxes, fields) ==
  IF Either(fields.sharedInbox, fields.inbox) # <<>>
  THEN SetAdd(inboxes, Either(fields.sharedInbox, fields.inbox))
  ELSE inboxes

\* ------------------------------------------------------ ActivityPub.send

\* Lines 188-190: a single target becomes a one-element array.
\* The targets argument is one identifier (id) or an array of them (ids).
TargetArgs ==
  {[array |-> FALSE, id |-> a, ids |-> <<>>] : a \in Actors}
    \cup {[array |-> TRUE, id |-> "", ids |-> s] :
            s \in UNION {[1..n -> Actors] : n \in 0..MaxTargets}}
Normalise(targets) == IF targets.array THEN targets.ids ELSE <<targets.id>>

\* Payloads send is called with; the second names its own actor, the third
\* its own context.
FollowAs == [type |-> <<"Follow">>, object |-> <<"alice">>, actor |-> <<"X">>]
FollowCtx ==
  [f \in {"type", "object", "@context"} |->
     IF f = "@context" THEN <<"custom">> ELSE Follow[f]]
SendPayloads == {Follow, FollowAs, FollowCtx}

\* Lines 194-198: the envelope; the payload's own fields come last and win.
ActivityStreams == <<"https://", "www.w3.org", "/ns", "/activitystreams">>
DefaultsWin(uid, payload) ==
  [f \in DOMAIN payload \cup {"@context", "actor"} |->
     IF f = "actor" THEN BaseUrl \o <<"/uid/", ToString(uid)>>
     ELSE IF f = "@context" THEN ActivityStreams
     ELSE payload[f]]
Envelope(uid, payload) ==
  [f \in DOMAIN payload \cup {"@context", "actor"} |->
     IF f \in DOMAIN payload THEN payload[f]
     ELSE IF f = "actor" THEN BaseUrl \o <<"/uid/", ToString(uid)>>
     ELSE ActivityStreams]

\* Lines 202-208: the POST of one delivery.
UnsignedPostHeaders(headers) == [h \in {"content-type"} |-> LdJson]
PostHeaders(headers) ==
  [h \in DOMAIN headers \cup {"content-type"} |->
     IF h = "content-type" THEN LdJson ELSE headers[h]]
PostRequest(j, uri, headers, body) ==
  [by |-> <<"send", j>>, method |-> "POST", uri |-> uri,
   headers |-> PostHeaders(headers), body |-> <<body>>]

\* What the remote answers to a POST: a network error or a status.
PostResponses ==
  {[error |-> TRUE, status |-> 0]} \cup {[error |-> FALSE, status |-> st] : st \in Statuses}

\* Lines 202 and 210-213: TRUE when the delivery's task fulfils.
Delivered(resp) == ~resp.error /\ Is2xx(resp.status)

IdleSend ==
  [pc |-> "idle", uid |-> 0, targets |-> <<>>, arg |-> Follow, payload |-> Follow,
   inboxes |-> <<>>, pending |-> {}, result |-> "pending"]
IdleDelivery == [pc |-> "none", uri |-> <<>>, date |-> <<>>, err |-> ""]

\* Line 200: Promise.all over the deliveries: it rejects as soon as one
\* rejects and fulfils once all have fulfilled.
AnySettled(ds) ==
  IF \E j \in DOMAIN ds : ds[j].pc \in {"ok", "failed"} THEN "resolved" ELSE "pending"
PromiseAll(ds) ==
  IF \E j \in DOMAIN ds : ds[j].pc = "failed" THEN "rejected"
  ELSE IF \A j \in DOMAIN ds : ds[j].pc = "ok" THEN "resolved"
  ELSE "pending"

\* The deliveries that exist: one per resolved inbox.
Started(ds) == [j \in {i \in DOMAIN ds : ds[i].pc # "none"} |-> ds[j]]

\* Lines 187-192 and 27-29: send is called and awaits actors.assert.
SendCall ==
  \E uid \in Uids, targets \in TargetArgs, payload \in SendPayloads :
    /\ sendc.pc = "idle"
    /\ sendc' = [IdleSend EXCEPT !.pc = "asserting", !.uid = uid,
                                 !.targets = Normalise(targets), !.arg = payload,
                                 !.payload = payload]
    /\ UNCHANGED <<scall, now, keyVars, getVars, deliv, asserted, verifyVars, net>>

\* Lines 200-201 for inbox j of inboxes: the delivery calls sign, which
\* raises for an invalid uid and otherwise awaits the private key.
StartDelivery(uid, inboxes, j) ==
  IF j > Len(inboxes) THEN IdleDelivery
  ELSE IF ~SignValid(uid)
  THEN [IdleDelivery EXCEPT !.pc = "failed", !.uri = inboxes[j], !.err = "[[error:invalid-uid]]"]
  ELSE [IdleDelivery EXCEPT !.pc = "signing", !.uri = inboxes[j], !.date = DateAt(now)]

RECURSIVE StartLookups(_, _, _)
StartLookups(kl, uid, n) ==
  IF n = 0 THEN kl
  ELSE StartLookups(StartLookup(kl, <<"send", n>>, "getPrivateKey", uid), uid, n - 1)

\* Lines 192-201: resolveInboxes has returned inboxes; the envelope is built
\* and every delivery starts.
Dispatch(inboxes, pending) ==
  LET ds == [j \in 1..MaxTargets |-> StartDelivery(sendc.uid, inboxes, j)]
  IN /\ deliv' = ds
     /\ sendc' = [sendc EXCEPT !.pc = "delivering", !.inboxes = inboxes,
                               !.pending = pending,
                               !.payload = Envelope(sendc.uid, sendc.payload),
                               !.result = PromiseAll(Started(ds))]
     /\ klook' = IF SignValid(sendc.uid)
                 THEN StartLookups(klook, sendc.uid, Len(inboxes))
                 ELSE klook

\* Lines 30-35: the Promise.all of resolveInboxes fulfils when the lookup j
\* that has just settled was the last one pending.
FirstSettled(pending, j) == TRUE
AllSettled(pending, j) == pending = {j}

\* Lines 29-31: actors.assert has settled and the lookups of the
\* identifiers start, all at once.
SendAsserted ==
  /\ sendc.pc = "asserting"
  /\ asserted' = asserted \cup {sendc.targets[j] : j \in 1..Len(sendc.targets)}
  /\ IF Len(sendc.targets) = 0
     THEN Dispatch(<<>>, {})
     ELSE /\ sendc' = [sendc EXCEPT !.pc = "resolving", !.pending = 1..Len(sendc.targets)]
          /\ UNCHANGED <<klook, deliv>>
  /\ UNCHANGED <<scall, now, dbKeys, generated, getVars, verifyVars, net>>

\* Lines 31-37: the user fields of one identifier arrive; after the last one
\* resolveInboxes returns and send goes on.
SendFields ==
  \E j \in sendc.pending :
    /\ sendc.pc = "resolving"
    /\ LET id == sendc.targets[j]
           fields == IF id \in asserted THEN ActorFields(id) ELSE ActorFields("")
           inboxes == AddInbox(sendc.inboxes, fields)
       IN IF AllSettled(sendc.pending, j)
          THEN Dispatch(inboxes, sendc.pending \ {j})
          ELSE /\ sendc' = [sendc EXCEPT !.inboxes = inboxes, !.pending = @ \ {j}]
               /\ UNCHANGED <<klook, deliv>>
    /\ UNCHANGED <<scall, now, dbKeys, generated, getVars, asserted, verifyVars, net>>

\* Lines 201-208: sign has the private key and returns the headers; the
\* delivery issues its POST.
DeliverSigned ==
  \E j \in 1..MaxTargets :
    /\ deliv[j].pc = "signing"
    /\ klook[<<"send", j>>].pc = "returned"
    /\ net' = net \cup {PostRequest(j, deliv[j].uri,
                          Sign(sendc.uid, deliv[j].uri, <<sendc.payload>>,
                               klook[<<"send", j>>].ret, deliv[j].date),
                          sendc.payload)}
    /\ klook' = [klook EXCEPT ![<<"send", j>>] = IdleLookup]
    /\ deliv' = [deliv EXCEPT ![j].pc = "posted"]
    /\ UNCHANGED <<scall, now, dbKeys, generated, getVars, sendc, asserted, verifyVars>>

\* Lines 202 and 210-214: the answer to one POST arrives.
DeliverResponse ==
  \E j \in 1..MaxTargets, resp \in PostResponses :
    /\ deliv[j].pc = "posted"
    /\ LET ds == [deliv EXCEPT ![j].pc = IF Delivered(resp) THEN "ok" ELSE "failed",
                               ![j].err = IF Delivered(resp) THEN "" ELSE "activity-failed"]
       IN /\ deliv' = ds
          /\ sendc' = [sendc EXCEPT !.result =
                         IF @ = "rejected" THEN @ ELSE PromiseAll(Started(ds))]
    /\ UNCHANGED <<scall, now, keyVars, getVars, asserted, verifyVars, net>>

\* ------------------------------------------------------------------- Init

IdleVerify == [pc |-> "idle"]

Init ==
  /\ now = 0
  /\ dbKeys = [u \in ValidUids |-> 0]
  /\ generated = [u \in ValidUids |-> {}]
  /\ klook = [c \in Callers |-> IdleLookup]
  /\ requestCache = <<>>
  /\ gcalls = [i \in GetIds |-> IdleGet]
  /\ sendc = IdleSend
  /\ deliv = [j \in 1..MaxTargets |-> IdleDelivery]
  /\ asserted = {}
  /\ vcall = IdleVerify
  /\ vorig = [how |-> "none"]
  /\ scall = IdleSign
  /\ net = {}

\* The verifier alone, on every inbound request the environment can build.
NextVerify == VerifyCall \/ VerifyFetched
SpecVerify == Init /\ [][NextVerify]_vars

\* The key store under concurrent direct lookups.
NextKeys == LookupCall \/ KeyRead \/ KeyGenerate
SpecKeys == Init /\ [][NextKeys]_vars

\* The key store while the database can fail to answer.
NextKeysOutage == NextKeys \/ KeyReadFails \/ KeyGenerateFails
SpecKeysOutage == Init /\ [][NextKeysOutage]_vars

\* The cached GET, its signer and the key store: MaxGets overlapping calls.
NextGetSteps == GetSigned \/ GetResponse \/ KeyRead \/ KeyGenerate \/ Tick
NextGet == (GetsMade < MaxGets /\ GetCall) \/ NextGetSteps
SpecGet == Init /\ [][NextGet]_vars

\* The same with one more call, so that a call can follow two that overlapped.
NextGetLater == (GetsMade < MaxGets + 1 /\ GetCall) \/ NextGetSteps
SpecGetLater == Init /\ [][NextGetLater]_vars

\* The same calls one after the other: a call is made when none is in flight.
InFlight == Cardinality({i \in GetIds : gcalls[i].pc \in {"signing", "requested"}})
NextGetSeq == (InFlight = 0 /\ GetCall) \/ NextGetSteps
SpecGetSeq == Init /\ [][NextGetSeq]_vars

\* One send, its deliveries, their signer and the key store.
NextSend ==
  SendCall \/ SendAsserted \/ SendFields \/ DeliverSigned \/ DeliverResponse
    \/ KeyRead \/ KeyGenerate
SpecSend == Init /\ [][NextSend]_vars

\* The event loop runs the continuation of every settled promise, and the
\* database and the HTTP client settle every request they are given (with an
\* answer, an error or a timeout).
SpecSendFair ==
  /\ SpecSend
  /\ WF_vars(SendAsserted) /\ WF_vars(SendFields)
  /\ WF_vars(KeyRead) /\ WF_vars(KeyGenerate)
  /\ WF_vars(DeliverSigned) /\ WF_vars(DeliverResponse)

\* One direct sign call, the key store and the clock.
NextSign == SignCall \/ SignReturn \/ KeyRead \/ KeyGenerate \/ Tick
SpecSign == Init /\ [][NextSign]_vars

\* Every operation of the module, one call in a run.
CallsMade ==
  Cardinality({c \in Callers : c[1] = "api" /\ klook[c].pc # "idle"}) + GetsMade
    + (IF sendc.pc # "idle" THEN 1 ELSE 0) + (IF vcall.pc # "idle" THEN 1 ELSE 0)
    + (IF scall.pc # "idle" THEN 1 ELSE 0)
Next ==
  \/ CallsMade = 0 /\ LookupCall
  \/ CallsMade = 0 /\ GetCall
  \/ CallsMade = 0 /\ SendCall
  \/ CallsMade = 0 /\ VerifyCall
  \/ CallsMade = 0 /\ SignCall
  \/ KeyRead \/ KeyGenerate
  \/ GetSigned \/ GetResponse \/ Tick
  \/ SendAsserted \/ SendFields \/ DeliverSigned \/ DeliverResponse
  \/ VerifyFetched
  \/ SignReturn
Spec == Init /\ [][Next]_vars

\* ---------------------------------------------- claims: outbound requests

SignedBy(r, uid) ==
  /\ {"signature", "date", "digest"} \subseteq DOMAIN r.headers
  /\ \E k \in generated[uid] :
       LET h == Sign(uid, r.uri, r.body, PrivateKey(k), r.headers["date"])
       IN r.headers["signature"] = h.signature /\ r.headers["digest"] = h.digest

\* C1 as claimed: every request handed to the HTTP client, by get, by
\* fetchPublicKey or by send, carries a signature header that sign produced
\* for some local identity.
C1_EveryRequestSigned == \A r \in net : \E uid \in ValidUids : SignedBy(r, uid)

\* C1 as amended: every POST of send and every GET of get with uid >= 0
\* carries the signature header sign produced for that uid; the GET of get
\* with a negative uid and the GET of fetchPublicKey carry none.
C1_SignedUnlessAnonymous ==
  \A r \in net :
    CASE r.by[1] = "send" -> r.method = "POST" /\ SignedBy(r, sendc.uid)
      [] r.by[1] = "get" ->
           /\ r.method = "GET"
           /\ IF gcalls[r.by[2]].uid >= 0 THEN SignedBy(r, gcalls[r.by[2]].uid)
              ELSE "signature" \notin DOMAIN r.headers
      [] OTHER -> r.method = "GET" /\ "signature" \notin DOMAIN r.headers

C1_Witness == \E r \in net : r.method = "POST" /\ "signature" \in DOMAIN r.headers

\* ------------------------------------------------------ claims: key store

Returned(fn, u) ==
  {c \in Callers : klook[c].pc = "returned" /\ klook[c].fn = fn /\ klook[c].uid = u}

\* C5: for an identity without key material, however many lookups overlap,
\* at most one pair is generated and no two calls return halves of
\* different pairs.
C5_OnePairGenerated ==
  \A u \in ValidUids :
    /\ Cardinality(generated[u]) <= 1
    /\ \A c, d \in Callers :
         (klook[c].pc = "returned" /\ klook[d].pc = "returned"
            /\ klook[c].uid = u /\ klook[d].uid = u)
         => klook[c].ret.pair = klook[d].ret.pair

\* C6: whatever getPublicKey(u) and getPrivateKey(u) have returned are the
\* two halves of one pair, and that pair is the one stored for u.
C6_MatchedStablePair ==
  \A u \in ValidUids :
    \A c \in Returned("getPublicKey", u) \cup Returned("getPrivateKey", u) :
      /\ klook[c].ret.pair = dbKeys[u]
      /\ \A d \in Returned("getPrivateKey", u) : klook[d].ret.pair = klook[c].ret.pair

\* ------------------------------------------------------------ claims: send

Posts == {r \in net : r.method = "POST"}

\* The endpoints of a list of recipients: the shared inbox where there is
\* one, else the inbox.
Endpoints(targets) ==
  {Either(ActorFields(targets[j]).sharedInbox, ActorFields(targets[j]).inbox) :
     j \in 1..Len(targets)} \ {<<>>}

AllPosted == \A j \in 1..MaxTargets : deliv[j].pc \in {"none", "posted", "ok", "failed"}

\* C7: for a valid identity, send issues no POST to a URI outside the
\* resolved inbox set, never two to one endpoint, and one to each endpoint
\* once every delivery has posted; with an empty set it issues none and
\* resolves.
C7_OnePostPerEndpoint ==
  SignValid(sendc.uid) =>
    /\ \A r \in Posts :
         /\ sendc.pc = "delivering"
         /\ r.uri \in Endpoints(sendc.targets)
         /\ \A q \in Posts : q.uri = r.uri => q = r
    /\ (sendc.pc = "delivering" /\ AllPosted) =>
         \A u \in Endpoints(sendc.targets) : \E r \in Posts : r.uri = u
    /\ (sendc.pc = "delivering" /\ Endpoints(sendc.targets) = {}) =>
         Posts = {} /\ sendc.result = "resolved"

C7_Witness ==
  /\ sendc.pc = "delivering"
  /\ sendc.targets = <<"alice", "bob">>
  /\ sendc.uid = 1
  /\ Cardinality(Posts) = 1
  /\ sendc.result = "resolved"

\* C8: the overall send is rejected exactly when some delivery has failed
\* and resolved only when every delivery was answered 2xx; and every
\* delivery that was started issues its POST and gets its answer, whatever
\* happens to the others and to the overall call.
C8_IndependentFanOut ==
  /\ []((sendc.pc = "delivering" /\ SignValid(sendc.uid)) =>
          /\ sendc.result = "rejected" <=> \E j \in 1..MaxTargets : deliv[j].pc = "failed"
          /\ sendc.result = "resolved" =>
               \A j \in 1..Len(sendc.inboxes) : deliv[j].pc = "ok")
  /\ \A j \in 1..MaxTargets :
       (deliv[j].pc = "signing") ~>
         (deliv[j].pc \in {"ok", "failed"} /\ \E r \in Posts : r.by = <<"send", j>>)

C8_Witness ==
  /\ sendc.result = "rejected"
  /\ \E i, j \in 1..MaxTargets :
       deliv[i].pc = "failed" /\ deliv[i].err = "activity-failed" /\ deliv[j].pc = "ok"

\* ------------------------------------------------------------- claims: get

SameKey(c, d) == c.uid = d.uid /\ c.uri = d.uri

\* C9: once a get has completed with a 2xx answer, every get made later
\* with the same uid and uri before the entry's time to live has run out
\* returns the body that call stored, and issues no request and no key read.
C9_LaterGetsServedFirstBody ==
  [][\A i, j \in GetIds :
       ( /\ gcalls[j].pc = "idle" /\ gcalls'[j].pc # "idle"
         /\ gcalls[i].pc = "returned" /\ gcalls[i].answer = "2xx"
         /\ SameKey(gcalls[i], gcalls'[j])
         /\ now < Ttl )
       => /\ gcalls'[j].pc = "returned" /\ gcalls'[j].hit
          /\ gcalls'[j].ret = gcalls[i].ret
          /\ net' = net /\ klook' = klook]_vars

Malformed == {"noKeyId", "noHeaders", "noSignature", "noPairs"}

\* C2: verify is a total boolean predicate: it never raises to its caller,
\* and a malformed signature header (keyId, headers or signature missing, or
\* no key="value" pair at all) makes it return false.
C2_VerifyNeverThrows ==
  /\ vcall.pc # "threw"
  /\ (vcall.pc = "returned" /\ vorig.how \in Malformed) => vcall.ret = FALSE

\* C3: when a request verifies and digest is among its signed headers, the
\* same request with another body and everything else unchanged does not
\* verify (against the same key document).
C3_TamperedBodyRejected ==
  ( /\ vcall.pc = "returned"
    /\ vorig.how = "body"
    /\ "digest" \in DOMAIN vorig.sent.headers
    /\ VerifyAfterFetch(VerifySync(vorig.sent), vcall.resp) )
  => vcall.ret = FALSE

\* The key document holds the public half of the pair the sender signed with.
MatchingKey(resp) == FetchPublicKeyOk(resp) /\ resp.publicKeyPem = PublicKey(vorig.pair)

\* C4: a request built from what sign returned (method, path, host, date,
\* digest and signature header as signed) makes verify fetch the signer's
\* keyId, and verify returns true whenever the key document fetched holds
\* the public half of the signing key.
C4_SignVerifyRoundTrip ==
  (vcall.pc # "idle" /\ vorig.how = "none") =>
    /\ vcall.pc \in {"fetching", "returned"}
    /\ vcall.v.kind = "fetch"
    /\ vcall.v.keyId = KeyId(vorig.uid)
    /\ (vcall.pc = "returned" /\ MatchingKey(vcall.resp)) => vcall.ret = TRUE

C4_Witness ==
  /\ vcall.pc = "returned"
  /\ vorig.how = "none"
  /\ vorig.payload # <<>>
  /\ vcall.req.baseUrl # <<>>
  /\ MatchingKey(vcall.resp)
  /\ vcall.ret = TRUE

\* ------------------------------------------------ claims: resolveInboxes

\* What resolveInboxes returned to send.
Resolved == {sendc.inboxes[i] : i \in 1..Len(sendc.inboxes)}

\* C11: resolveInboxes returns, without duplicates, exactly the shared inbox
\* of every identifier that has one and the inbox of every identifier that
\* has only that; an identifier with neither contributes nothing.
C11_ResolvedInboxSet ==
  sendc.pc = "delivering" =>
    LET ids == sendc.targets
        f(j) == ActorFields(ids[j])
        want == {f(j).sharedInbox : j \in {i \in 1..Len(ids) : f(i).sharedInbox # <<>>}}
                  \cup {f(j).inbox : j \in {i \in 1..Len(ids) :
                                              f(i).sharedInbox = <<>> /\ f(i).inbox # <<>>}}
    IN /\ Resolved = want
       /\ Len(sendc.inboxes) = Cardinality(want)

C11_Witness ==
  /\ sendc.pc = "delivering"
  /\ sendc.targets \in {<<"alice", "bob">>, <<"bob", "alice">>}
  /\ sendc.inboxes = <<InboxShared>>

\* ------------------------------------------------------ claims: envelope

\* C12: the body of every POST of send has the caller's value for every
\* field the caller's payload defines, '@context' and 'actor' included, the
\* injected defaults for those two where the payload leaves them out, and no
\* other field; every destination is sent the same body.
C12_EnvelopePrecedence ==
  \A r \in Posts :
    LET p == sendc.arg
        b == r.body[1]
    IN /\ DOMAIN b = DOMAIN p \cup {"@context", "actor"}
       /\ \A f \in DOMAIN p : b[f] = p[f]
       /\ "@context" \notin DOMAIN p => b["@context"] = ActivityStreams
       /\ "actor" \notin DOMAIN p =>
            b["actor"] = BaseUrl \o <<"/uid/", ToString(sendc.uid)>>
       /\ \A q \in Posts : q.body = r.body

C12_Witness ==
  /\ sendc.arg = FollowAs
  /\ Cardinality(Posts) = 2
  /\ \A r \in Posts :
       r.body[1]["actor"] = <<"X">> /\ r.body[1]["@context"] = ActivityStreams

\* ------------------------------------------- claims: verifier, continued

\* C13: an inbound request without a signature header makes verify return
\* false at once, and no request is handed to the HTTP client.
C13_UnsignedRejectedOffline ==
  (vcall.pc # "idle" /\ vorig.how = "unsigned") =>
    /\ vcall.pc = "returned"
    /\ vcall.ret = FALSE
    /\ net = {}

C13_Witness ==
  /\ vcall.pc = "returned"
  /\ "signature" \notin DOMAIN vcall.req.headers
  /\ {"host", "date", "digest"} \subseteq DOMAIN vcall.req.headers

\* The key document fetched has no publicKey field.
NoPublicKey(resp) == ~resp.error /\ ~resp.hasPublicKey

\* C14: fetchPublicKey rejects with the public-key-not-found error whenever
\* the status is not 2xx or the body has no publicKey field, and in each of
\* these cases, and on a network error, the verify that asked returns false.
C14_KeyFetchFailure ==
  vcall.pc = "returned" /\ vcall.v.kind = "fetch" =>
    /\ (~vcall.resp.error /\ ~Is2xx(vcall.resp.status)) \/ NoPublicKey(vcall.resp)
         => vcall.ferr = PubKeyNotFound /\ vcall.ret = FALSE
    /\ vcall.resp.error => vcall.ret = FALSE

\* The part of C14 about verify alone.
C14_VerifyFalseOnFetchFailure ==
  vcall.pc = "returned" /\ vcall.v.kind = "fetch" /\ vcall.ferr # "ok" => vcall.ret = FALSE

\* -------------------------------------------------------- claims: signer

\* A uid that is a non-negative integer-valued number.
NonNegativeInteger(arg) == arg.numeric /\ arg.tenths >= 0 /\ arg.tenths % 10 = 0

\* C15: for every uid that is not a non-negative integer (negative, not a
\* number, or a number with a fractional part) sign raises invalid-uid, and
\* no private key is read and no pair is generated.
C15_InvalidUidRejected ==
  (scall.pc # "idle" /\ ~NonNegativeInteger(scall.arg)) =>
    /\ scall.pc = "threw"
    /\ scall.err = "[[error:invalid-uid]]"
    /\ klook[<<"sign", 1>>] = IdleLookup
    /\ AllGenerated = {}

\* The part of C15 the code keeps: what the check of line 81 rejects is
\* rejected before any key is read or generated.
C15_RejectedBeforeKeyRead ==
  (scall.pc # "idle" /\ InvalidUid(scall.arg)) =>
    /\ scall.pc = "threw"
    /\ scall.err = "[[error:invalid-uid]]"
    /\ klook[<<"sign", 1>>] = IdleLookup
    /\ AllGenerated = {}

\* ------------------------------------------- claims: key store, continued

\* C16: a lookup whose read of the store failed because the store cannot be
\* reached passes the failure on to its caller and returns no key; no pair
\* is generated on its behalf and the stored pair is not replaced, so every
\* pair generated belongs to a lookup whose read succeeded.
C16_NoFallbackKey ==
  /\ \A c \in Callers :
       klook[c].dbError => klook[c].pc = "threw" /\ klook[c].ret = Undefined
  /\ Cardinality(AllGenerated)
       <= Cardinality({c \in Callers : ~klook[c].dbError /\ klook[c].pc = "returned"})

\* ------------------------------------------------ claims: get, continued

FiveMinutes == 5 * 60 * 1000

\* C17: an entry get puts in the cache expires five minutes after it was
\* put there; a get, served from the cache or not, leaves the entries and
\* their expiry as they are; a get for a key is served from the cache exactly
\* when an entry for it has not yet expired, and one that is not served goes
\* on to the network (at once when there is nothing to sign).
C17_FixedTimeToLive ==
  [][/\ \A key \in DOMAIN requestCache' :
          (key \notin DOMAIN requestCache \/ requestCache'[key] # requestCache[key])
            => requestCache'[key].expires = now + FiveMinutes
     /\ \A j \in GetIds :
          (gcalls[j].pc = "idle" /\ gcalls'[j].pc # "idle") =>
            LET key == CacheKey(gcalls'[j].uid, gcalls'[j].uri)
            IN /\ requestCache' = requestCache
               /\ gcalls'[j].hit <=>
                    (key \in DOMAIN requestCache /\ now < requestCache[key].expires)
               /\ ~gcalls'[j].hit =>
                    /\ gcalls'[j].pc \in {"signing", "requested"}
                    /\ gcalls'[j].uid < 0 => \E r \in net' \ net : r.by = <<"get", j>>]_vars

C17_Witness ==
  /\ gcalls[1].pc = "returned" /\ ~gcalls[1].hit
  /\ gcalls[2].pc = "returned" /\ gcalls[2].hit
  /\ gcalls[3].pc = "requested" /\ ~gcalls[3].hit
  /\ SameKey(gcalls[1], gcalls[2]) /\ SameKey(gcalls[1], gcalls[3])
  /\ now = FiveMinutes
  /\ \E r \in net : r.by = <<"get", 3>>

\* ------------------------------------------------ claims: send, continued

\* Some delivery of send has begun: it exists, it awaits a key or it posted.
DeliveryBegun ==
  \/ \E j \in 1..MaxTargets : deliv[j].pc # "none" \/ klook[<<"send", j>>].pc # "idle"
  \/ Posts # {}

Targets == {sendc.targets[j] : j \in 1..Len(sendc.targets)}

\* C18: no signing and no POST of send begins before the assertion and the
\* field lookup of every target have finished, and no field lookup is
\* pending before the assertion of all targets has finished.
C18_DispatcherBarrier ==
  /\ DeliveryBegun =>
       sendc.pc = "delivering" /\ sendc.pending = {} /\ Targets \subseteq asserted
  /\ sendc.pc = "delivering" => sendc.pending = {}
  /\ sendc.pc = "asserting" => sendc.pending = {} /\ asserted = {}
  /\ sendc.pending # {} => sendc.pc = "resolving" /\ Targets \subseteq asserted

C18_Witness ==
  /\ sendc.pc = "delivering"
  /\ sendc.targets = <<"carol", "alice">>
  /\ \A j \in 1..2 : deliv[j].pc = "posted"
  /\ Cardinality(Posts) = 2

\* C19: get does not suspend between the has-check and the set: of the get
\* calls for one key that run at the same time at most one has a request in
\* flight, and before any time has passed the entry is written at most once.
C19_CheckThenInsertAtomic ==
  \A i, j \in GetIds :
    (i # j /\ gcalls[i].pc # "idle" /\ gcalls[j].pc # "idle"
       /\ SameKey(gcalls[i], gcalls[j])) =>
      /\ ~(gcalls[i].pc = "requested" /\ gcalls[j].pc = "requested")
      /\ now = 0 =>
           ~(gcalls[i].pc = "returned" /\ ~gcalls[i].hit
               /\ gcalls[j].pc = "returned" /\ ~gcalls[j].hit)

\* C20: a send with an identity the signer rejects fails with invalid-uid
\* without any part of the work done: no target is asserted, no inbox is
\* looked up or resolved and no POST is issued.
C20_InvalidUidFailsFast ==
  (sendc.pc # "idle" /\ ~SignValid(sendc.uid)) =>
    /\ asserted = {}
    /\ sendc.pending = {} /\ sendc.inboxes = <<>>
    /\ Posts = {}
    /\ sendc.pc = "delivering" =>
         /\ sendc.result = "rejected"
         /\ \E j \in 1..MaxTargets : deliv[j].err = "[[error:invalid-uid]]"

\* The part of C20 the code keeps: such a send issues no POST and reads no key.
C20_InvalidUidNeverPosts ==
  (sendc.pc # "idle" /\ ~SignValid(sendc.uid)) =>
    /\ Posts = {}
    /\ \A j \in 1..MaxTargets : klook[<<"send", j>>] = IdleLookup

\* C21: the cache key is injective over the pairs (uid, uri), and a body a
\* get is served from the cache was stored by a get with the same uid and
\* the same uri.
C21_CacheIsolation ==
  /\ \A a, b \in KeyUids, u, v \in KeyUris :
       Flatten(CacheKey(a, u)) = Flatten(CacheKey(b, v)) => a = b /\ Flatten(u) = Flatten(v)
  /\ [](\A j \in GetIds :
          gcalls[j].hit =>
            \E i \in GetIds \ {j} :
              /\ SameKey(gcalls[i], gcalls[j])
              /\ gcalls[i].pc = "returned" /\ ~gcalls[i].hit
              /\ gcalls[i].ret = gcalls[j].ret)

C21_Witness ==
  /\ gcalls[1].pc = "returned" /\ ~gcalls[1].hit /\ gcalls[1].uid = 1
  /\ gcalls[2].pc = "returned" /\ ~gcalls[2].hit /\ gcalls[2].uid = -1
  /\ gcalls[3].pc = "returned" /\ gcalls[3].hit /\ gcalls[3].uid = 1
  /\ gcalls[1].uri = gcalls[2].uri /\ gcalls[2].uri = gcalls[3].uri
  /\ gcalls[1].ret # gcalls[2].ret
  /\ gcalls[3].ret = gcalls[1].ret

\* ------------------------------------------- claims: signer and envelope

\* The keyId a receiver reads out of the signature header of a request.
KeyIdOf(r) == ParseSignature(r.headers["signature"])[<<"keyId">>]

\* C22: for every valid uid, 0 included, and every payload that names no
\* actor of its own, the keyId of the signature of each POST of send is the
\* actor of the envelope followed by #key.
C22_KeyIdNamesActor ==
  (SignValid(sendc.uid) /\ "actor" \notin DOMAIN sendc.arg) =>
    \A r \in Posts : KeyIdOf(r) = r.body[1]["actor"] \o <<"#key">>

\* The part of C22 the code keeps: the same for every uid above 0.
C22_KeyIdNamesUserActor ==
  (sendc.uid > 0 /\ "actor" \notin DOMAIN sendc.arg) =>
    \A r \in Posts : KeyIdOf(r) = r.body[1]["actor"] \o <<"#key">>

=============================================================================
